---- MODULE Spec2Model ----
(***************************************************************************)
(* param_track: the Parameters store (param_track.py), the Units value     *)
(* coercion object shared by every store (param_track_units.py) and the    *)
(* Log the store posts to (param_track_support.py).                        *)
(*                                                                         *)
(* Python values are written as strings that carry their type:             *)
(*   "None", "b:True", "b:False", "i:1", "s:1", "f:1.5", "d:{...}"         *)
(* so that 1 and '1' are different values and type() can be computed.      *)
(* An object's attributes are one function from attribute name to value    *)
(* (the instance __dict__); _internal_pardict is kept beside it.           *)
(***************************************************************************)
EXTENDS Naturals, Sequences, FiniteSets, TLC

VARIABLES attr, pardict, ptu, posted, cleared, raised, ret, call

vars == <<attr, pardict, ptu, posted, cleared, raised, ret, call>>

\* The Parameters objects of the process.
Insts == {"A", "B"}

-----------------------------------------------------------------------------
(* Python values and the builtins the code applies to them *)

None == "None"
True == "b:True"
False == "b:False"

\* the integers 0..MaxInt, the strs '1' and 'x', the float 1.5
MaxInt == 2

Bools == {"b:True", "b:False"}
Ints == {"i:" \o ToString(n) : n \in 0..MaxInt}
Strs == {"s:1", "s:x"}
Floats == {"f:1.5"}

\* unit_handler dictionaries given to ptsetunits: {'a': 'int'}, {'a': '*'}, {}, {'a': 'furlong'}
HandlerInt == "d:{a:int}"
HandlerAny == "d:{a:*}"
HandlerEmpty == "d:{}"
HandlerBad == "d:{a:furlong}"
Dicts == {HandlerInt, HandlerAny, HandlerEmpty, HandlerBad}

\* type(val)
type(val) ==
    IF val \in Bools THEN "bool"
    ELSE IF val \in Ints THEN "int"
    ELSE IF val \in Strs THEN "str"
    ELSE IF val \in Floats THEN "float"
    ELSE IF val \in Dicts THEN "dict"
    ELSE "NoneType"

\* bool(val) as a Python value, and the truth test of `if val:`
Truthy(val) == val \notin {None, False, "i:0"}

bool(val) == IF Truthy(val) THEN True ELSE False

\* int(val) succeeds on these values; on the others it raises
IntOk(val) == val \in Bools \cup Ints \cup Floats \cup {"s:1"}

int(val) ==
    IF val \in Ints THEN val
    ELSE IF val = True THEN "i:1"
    ELSE IF val = False THEN "i:0"
    ELSE "i:1"

\* dict helpers: d[key] = val, del d[key]
Put(d, key, val) == [k \in DOMAIN d \cup {key} |-> IF k = key THEN val ELSE d[k]]

Del(d, key) == [k \in DOMAIN d \ {key} |-> d[k]]

EmptyDict == [k \in {} |-> None]

-----------------------------------------------------------------------------
(* Reserved names *)

_internal_only_ptvar ==
    {"ptnote", "ptstrict", "pterr", "ptverbose", "pttype", "pttypeerr", "ptsetunits",
     "_internal_self_type", "_internal_pardict"}

_internal_only_ptdef ==
    {"_pt_set", "ptinit", "ptset", "ptget", "ptadd", "ptdel", "ptshow", "ptsu", "ptlog",
     "pt_to_dict", "pt_to_csv", "pt_from", "_pt_from_csv"}

\* key[0] == '_'
Private(key) == key \in {"_internal_self_type", "_internal_pardict", "_pt_set", "_pt_from_csv"}

\* the value of self._internal_self_type, type(self): the mark of a name
\* declared by ptinit whose type is not yet set
_internal_self_type == "Parameters"

-----------------------------------------------------------------------------
(* Log *)

\* One LogEntry: the message (its kind and the name it is about) and silent.
LogEntry(message, key, silent) == [msg |-> message, key |-> key, silent |-> silent]

\* Log.post: append the entry.  s.log holds the entries the running call
\* has appended to __log__.log so far.
post(s, message, key, silent) ==
    [s EXCEPT !.log = Append(@, LogEntry(message, key, silent))]

\* an exception leaves the running call
raise(s, exception) == [s EXCEPT !.exc = exception]

-----------------------------------------------------------------------------
(* Units: the module-level __ptu__ every Parameters object uses *)

Units__init__ == [use_units |-> FALSE, unit_handler |-> EmptyDict, valid_unit_handler |-> FALSE]

\* the unit/type each handler dictionary gives per name
HandlerOf(d) ==
    IF d = HandlerInt THEN [k \in {"a"} |-> "int"]
    ELSE IF d = HandlerAny THEN [k \in {"a"} |-> "*"]
    ELSE IF d = HandlerBad THEN [k \in {"a"} |-> "furlong"]
    ELSE EmptyDict

\* the entries of all_units the model uses
all_units == {"int", "*"}

\* Units._parse_unit_handler with action='reset'
_parse_unit_handler(s, unit_handler) ==
    IF \E k \in DOMAIN HandlerOf(unit_handler) : HandlerOf(unit_handler)[k] \notin all_units
    THEN raise(s, "ValueError")
    ELSE [s EXCEPT !.ptu.unit_handler = HandlerOf(unit_handler),
                   !.ptu.valid_unit_handler = TRUE]

\* Units.handle_units; a str names a file, and no file of these names exists
handle_units(s, unit_handler) ==
    IF type(unit_handler) = "dict"
    THEN _parse_unit_handler([s EXCEPT !.ptu.use_units = TRUE], unit_handler)
    ELSE IF type(unit_handler) = "str"
    THEN raise(s, "FileNotFoundError")
    ELSE IF type(unit_handler) \in {"bool", "NoneType", "int"}
    THEN [s EXCEPT !.ptu.use_units = Truthy(unit_handler)]
    ELSE raise(s, "ValueError")

\* Units._make_quantity for the builtin units: the converted value, or the
\* value itself when the conversion raises
_make_quantity(u, key, val) ==
    IF u.unit_handler[key] = "*" THEN val
    ELSE IF IntOk(val) THEN int(val)
    ELSE val

\* __ptu__.val after Units.setattr(obj, key, val)
ptu_val(u, key, val) ==
    IF ~u.use_units THEN val
    ELSE IF ~u.valid_unit_handler THEN val
    ELSE IF key \in DOMAIN u.unit_handler THEN _make_quantity(u, key, val)
    ELSE val

\* __ptu__.type after Units.setattr: None for None, else type(self.val)
ptu_type(u, key, val) ==
    IF ptu_val(u, key, val) = None THEN None ELSE type(ptu_val(u, key, val))

\* Mutation of setattr: the value as given is stored, not the converted one.
setattr_raw(s, self, key, val) ==
    [s EXCEPT !.attr[self] = Put(@, key, val)]

\* Units.setattr: setattr(obj, key, self.val)
setattr(s, self, key, val) ==
    [s EXCEPT !.attr[self] = Put(@, key, ptu_val(s.ptu, key, val))]

-----------------------------------------------------------------------------
(* Parameters *)

Reserved == _internal_only_ptvar \cup _internal_only_ptdef

\* self.<flag> read as a condition
flag(s, self, name) == Truthy(s.attr[self][name])

\* silent=not self.ptverbose
quiet(s, self) == ~flag(s, self, "ptverbose")

\* Mutation of _pt_set_mismatch: pttypeerr raises without pttype being set.
_pt_set_mismatch_err_only(s, self, key, val) ==
    IF flag(s, self, "pttypeerr")
    THEN raise(s, "ParameterTrackError")
    ELSE IF flag(s, self, "pttype")
    THEN post(s, "set: retain", key, FALSE)
    ELSE post([s EXCEPT !.pardict[self][key] = ptu_type(s.ptu, key, val)],
              "set: reset", key, TRUE)

\* Mutation of _pt_set_mismatch: the retain branch follows the new type too.
_pt_set_mismatch_follows(s, self, key, val) ==
    IF flag(s, self, "pttype") /\ flag(s, self, "pttypeerr")
    THEN raise(s, "ParameterTrackError")
    ELSE post([s EXCEPT !.pardict[self][key] = ptu_type(s.ptu, key, val)],
              "set: retain", key, FALSE)

\* Mutation of _pt_set_mismatch: with pttype off the declared type stays, and
\* only the reset entry is posted.
_pt_set_mismatch_no_reset(s, self, key, val) ==
    IF flag(s, self, "pttype")
    THEN IF flag(s, self, "pttypeerr")
         THEN raise(s, "ParameterTrackError")
         ELSE post(s, "set: retain", key, FALSE)
    ELSE post(s, "set: reset", key, TRUE)

\* _pt_set, a declared name whose declared type is not type(val)
_pt_set_mismatch(s, self, key, val) ==
    IF flag(s, self, "pttype")
    THEN IF flag(s, self, "pttypeerr")
         THEN raise(s, "ParameterTrackError")
         ELSE post(s, "set: retain", key, FALSE)
    ELSE post([s EXCEPT !.pardict[self][key] = ptu_type(s.ptu, key, val)],
              "set: reset", key, TRUE)

\* Mutation of _pt_set_existing: the type is looked at before the value is
\* set, and a retained type keeps the old value.
_pt_set_existing_check_first(s, self, key, val) ==
    LET s1 == setattr(s, self, key, val)
        s2 == post(s1, "set: existing", key, quiet(s1, self))
    IN IF s.pardict[self][key] = _internal_self_type
       THEN post([s2 EXCEPT !.pardict[self][key] = ptu_type(s.ptu, key, val)],
                 "set: type initialized", key, quiet(s2, self))
       ELSE IF type(val) # s.pardict[self][key]
       THEN IF flag(s, self, "pttype")
            THEN IF flag(s, self, "pttypeerr")
                 THEN raise(s, "ParameterTrackError")
                 ELSE post(post(s, "set: existing", key, quiet(s, self)),
                           "set: retain", key, FALSE)
            ELSE _pt_set_mismatch(s2, self, key, val)
       ELSE s2

\* Mutation of _pt_set_existing: no test for a name declared by ptinit.
_pt_set_existing_no_untyped(s, self, key, val) ==
    LET s1 == setattr(s, self, key, val)
        s2 == post(s1, "set: existing", key, quiet(s1, self))
    IN IF type(val) # s2.pardict[self][key]
       THEN _pt_set_mismatch(s2, self, key, val)
       ELSE s2

\* _pt_set, a declared name: the value is set, then the type is looked at
_pt_set_existing(s, self, key, val) ==
    LET s1 == setattr(s, self, key, val)
        s2 == post(s1, "set: existing", key, quiet(s1, self))
    IN IF s2.pardict[self][key] = _internal_self_type
       THEN post([s2 EXCEPT !.pardict[self][key] = ptu_type(s.ptu, key, val)],
                 "set: type initialized", key, quiet(s2, self))
       ELSE IF type(val) # s2.pardict[self][key]
       THEN _pt_set_mismatch(s2, self, key, val)
       ELSE s2

\* Mutation of _pt_set_unknown: strict mode raises whatever pterr is.
_pt_set_unknown_raises(s, self, key, val) ==
    raise(s, "ParameterTrackError")

\* _pt_set, a name that is not declared, in strict mode
_pt_set_unknown(s, self, key, val) ==
    IF flag(s, self, "pterr")
    THEN raise(s, "ParameterTrackError")
    ELSE post(s, "set: unknown ignored", key, FALSE)

\* Mutation of _pt_set_new: with pttype on the new name is declared without
\* a type, to be typed by the next set.
_pt_set_new_untyped(s, self, key, val) ==
    LET s1 == setattr(s, self, key, val)
    IN post([s1 EXCEPT !.pardict[self] =
                 Put(@, key, IF flag(s, self, "pttype") THEN _internal_self_type
                             ELSE ptu_type(s.ptu, key, val))],
            "set: new", key, quiet(s1, self))

\* _pt_set, a name that is not declared, not in strict mode
_pt_set_new(s, self, key, val) ==
    LET s1 == setattr(s, self, key, val)
        s2 == [s1 EXCEPT !.pardict[self] = Put(@, key, ptu_type(s.ptu, key, val))]
    IN post(s2, "set: new", key, quiet(s2, self))

\* _pt_set, the body of the loop for one (key, val)
_pt_set_pair(s, self, key, val) ==
    IF key \in _internal_only_ptvar \/ key \in _internal_only_ptdef
    THEN post(s, "set: internal ignored", key, FALSE)
    ELSE IF key \in DOMAIN s.pardict[self]
    THEN _pt_set_existing(s, self, key, val)
    ELSE IF flag(s, self, "ptstrict")
    THEN _pt_set_unknown(s, self, key, val)
    ELSE _pt_set_new(s, self, key, val)

\* Mutation of _pt_set: the pairs after the one that raises are applied too,
\* and the error is raised at the end.
RECURSIVE _pt_set_collects(_, _, _)
_pt_set_collects(s, self, kwargs) ==
    IF kwargs = <<>> THEN s
    ELSE LET s1 == _pt_set_pair([s EXCEPT !.exc = "none"], self, Head(kwargs).key, Head(kwargs).val)
             s2 == _pt_set_collects(s1, self, Tail(kwargs))
         IN IF s.exc # "none" THEN raise(s2, s.exc) ELSE s2

\* Parameters._pt_set: the pairs in order, until one raises
RECURSIVE _pt_set(_, _, _)
_pt_set(s, self, kwargs) ==
    IF kwargs = <<>> THEN s
    ELSE LET s1 == _pt_set_pair(s, self, Head(kwargs).key, Head(kwargs).val)
         IN IF s1.exc # "none" THEN s1 ELSE _pt_set(s1, self, Tail(kwargs))

\* Parameters.ptset
ptset(s, self, kwargs) == _pt_set(s, self, kwargs)

\* Mutation of ptadd_pair: a new name is declared only when ptstrict is off.
ptadd_pair_strict(s, self, key, val) ==
    IF key \in _internal_only_ptvar \/ key \in _internal_only_ptdef
    THEN post(s, "add: internal ignored", key, FALSE)
    ELSE IF key \in DOMAIN s.pardict[self]
    THEN LET s1 == setattr(s, self, key, val)
             s2 == post(s1, "add: replacing", key, quiet(s1, self))
         IN [s2 EXCEPT !.pardict[self][key] = ptu_type(s.ptu, key, val)]
    ELSE IF flag(s, self, "ptstrict")
    THEN post(s, "add: unknown ignored", key, FALSE)
    ELSE LET s1 == setattr(s, self, key, val)
             s2 == post(s1, "add: adding", key, quiet(s1, self))
         IN [s2 EXCEPT !.pardict[self] = Put(@, key, ptu_type(s.ptu, key, val))]

\* Mutation of ptadd_pair: only the method names are refused.
ptadd_pair_vars_open(s, self, key, val) ==
    IF key \in _internal_only_ptdef
    THEN post(s, "add: internal ignored", key, FALSE)
    ELSE IF key \in DOMAIN s.pardict[self]
    THEN LET s1 == setattr(s, self, key, val)
             s2 == post(s1, "add: replacing", key, quiet(s1, self))
         IN [s2 EXCEPT !.pardict[self][key] = ptu_type(s.ptu, key, val)]
    ELSE LET s1 == setattr(s, self, key, val)
             s2 == post(s1, "add: adding", key, quiet(s1, self))
         IN [s2 EXCEPT !.pardict[self] = Put(@, key, ptu_type(s.ptu, key, val))]

\* Mutation of ptadd_pair: a declared name is given the type test of ptset.
ptadd_pair_typed(s, self, key, val) ==
    IF key \in _internal_only_ptvar \/ key \in _internal_only_ptdef
    THEN post(s, "add: internal ignored", key, FALSE)
    ELSE IF key \in DOMAIN s.pardict[self]
    THEN IF /\ type(val) # s.pardict[self][key]
            /\ flag(s, self, "pttype") /\ flag(s, self, "pttypeerr")
         THEN raise(s, "ParameterTrackError")
         ELSE LET s1 == setattr(s, self, key, val)
                  s2 == post(s1, "add: replacing", key, quiet(s1, self))
              IN [s2 EXCEPT !.pardict[self][key] = ptu_type(s.ptu, key, val)]
    ELSE LET s1 == setattr(s, self, key, val)
             s2 == post(s1, "add: adding", key, quiet(s1, self))
         IN [s2 EXCEPT !.pardict[self] = Put(@, key, ptu_type(s.ptu, key, val))]

\* ptadd, the body of the loop for one (key, val)
ptadd_pair(s, self, key, val) ==
    IF key \in _internal_only_ptvar \/ key \in _internal_only_ptdef
    THEN post(s, "add: internal ignored", key, FALSE)
    ELSE IF key \in DOMAIN s.pardict[self]
    THEN LET s1 == setattr(s, self, key, val)
             s2 == post(s1, "add: replacing", key, quiet(s1, self))
         IN [s2 EXCEPT !.pardict[self][key] = ptu_type(s.ptu, key, val)]
    ELSE LET s1 == setattr(s, self, key, val)
             s2 == post(s1, "add: adding", key, quiet(s1, self))
         IN [s2 EXCEPT !.pardict[self] = Put(@, key, ptu_type(s.ptu, key, val))]

\* Parameters.ptadd
RECURSIVE ptadd(_, _, _)
ptadd(s, self, kwargs) ==
    IF kwargs = <<>> THEN s
    ELSE ptadd(ptadd_pair(s, self, Head(kwargs).key, Head(kwargs).val), self, Tail(kwargs))

\* kwargs has the key / kwargs[key] for the first pair of that key / kwargs.pop(key)
Has(kwargs, key) == \E n \in 1..Len(kwargs) : kwargs[n].key = key

Get(kwargs, key) == kwargs[CHOOSE n \in 1..Len(kwargs) : kwargs[n].key = key].val

Pop(kwargs, key) == SelectSeq(kwargs, LAMBDA p : p.key # key)

\* ptsu, the three names taken out of kwargs before the loop
ptsu_ptverbose(s, self, kwargs) ==
    IF Has(kwargs, "ptverbose")
    THEN LET s1 == [s EXCEPT !.attr[self] = Put(@, "ptverbose", bool(Get(kwargs, "ptverbose")))]
         IN post(s1, "su: set internal", "ptverbose", quiet(s1, self))
    ELSE s

ptsu_ptnote(s, self, kwargs) ==
    IF Has(kwargs, "ptnote")
    THEN LET s1 == [s EXCEPT !.attr[self] = Put(@, "ptnote", bool(Get(kwargs, "ptnote")))]
         IN post(s1, "su: set internal", "ptnote", quiet(s1, self))
    ELSE s

ptsu_ptsetunits(s, self, kwargs) ==
    IF Has(kwargs, "ptsetunits")
    THEN LET s1 == handle_units(s, Get(kwargs, "ptsetunits"))
             s2 == [s1 EXCEPT !.attr[self] =
                        Put(@, "ptsetunits", IF s1.ptu.use_units THEN True ELSE False)]
         IN IF s1.exc # "none" THEN s1
            ELSE post(s2, "su: set internal", "ptsetunits", quiet(s2, self))
    ELSE s

\* Mutation of ptsu_pair: only the private reserved variables and the flags
\* given a bool are kept from the parameters.
ptsu_pair_open(s, self, key, val) ==
    IF key \in _internal_only_ptdef
    THEN post(s, "su: method ignored", key, FALSE)
    ELSE IF key \in _internal_only_ptvar /\ Private(key)
    THEN post(s, "su: internal ignored", key, FALSE)
    ELSE IF key \in _internal_only_ptvar /\ type(val) = "bool"
    THEN post([s EXCEPT !.attr[self] = Put(@, key, val)],
              "su: set internal", key, quiet(s, self))
    ELSE IF "__pt_init_flag__" \notin DOMAIN s.attr[self]
    THEN raise(s, "AttributeError")
    ELSE IF flag(s, self, "__pt_init_flag__")
    THEN LET s1 == setattr(s, self, key, val)
             s2 == [s1 EXCEPT !.pardict[self] = Put(@, key, _internal_self_type)]
         IN post(s2, "su: initializing", key, quiet(s2, self))
    ELSE IF key \in DOMAIN s.pardict[self]
    THEN post(setattr(s, self, key, val), "su: replacing retaining type", key, quiet(s, self))
    ELSE LET s1 == setattr(s, self, key, val)
             s2 == [s1 EXCEPT !.pardict[self] = Put(@, key, ptu_type(s.ptu, key, val))]
         IN post(s2, "su: adding", key, quiet(s2, self))

\* ptsu, the body of the loop for one (key, val)
ptsu_pair(s, self, key, val) ==
    IF key \in _internal_only_ptdef
    THEN post(s, "su: method ignored", key, FALSE)
    ELSE IF key \in _internal_only_ptvar
    THEN IF Private(key)
         THEN post(s, "su: internal ignored", key, FALSE)
         ELSE IF type(val) # "bool"
         THEN post(s, "su: not bool ignored", key, FALSE)
         ELSE post([s EXCEPT !.attr[self] = Put(@, key, val)],
                   "su: set internal", key, quiet(s, self))
    ELSE IF "__pt_init_flag__" \notin DOMAIN s.attr[self]
    THEN raise(s, "AttributeError")
    ELSE IF flag(s, self, "__pt_init_flag__")
    THEN LET s1 == setattr(s, self, key, val)
             s2 == [s1 EXCEPT !.pardict[self] = Put(@, key, _internal_self_type)]
         IN post(s2, "su: initializing", key, quiet(s2, self))
    ELSE IF key \in DOMAIN s.pardict[self] /\ type(val) = s.pardict[self][key]
    THEN post(setattr(s, self, key, val), "su: replacing same type", key, quiet(s, self))
    ELSE IF key \in DOMAIN s.pardict[self]
    THEN post(setattr(s, self, key, val), "su: replacing retaining type", key, quiet(s, self))
    ELSE LET s1 == setattr(s, self, key, val)
             s2 == [s1 EXCEPT !.pardict[self] = Put(@, key, ptu_type(s.ptu, key, val))]
         IN post(s2, "su: adding", key, quiet(s2, self))

RECURSIVE ptsu_loop(_, _, _)
ptsu_loop(s, self, kwargs) ==
    IF kwargs = <<>> THEN s
    ELSE LET s1 == ptsu_pair(s, self, Head(kwargs).key, Head(kwargs).val)
         IN IF s1.exc # "none" THEN s1 ELSE ptsu_loop(s1, self, Tail(kwargs))

\* Mutation of ptsu: on an object that has its ptverbose already, the
\* ptverbose of the batch is taken last, after the other pairs.
ptsu_verbose_last(s, self, kwargs) ==
    LET first == "ptverbose" \notin DOMAIN s.attr[self]
        s1 == IF first THEN ptsu_ptverbose(s, self, kwargs) ELSE s
        s2 == ptsu_ptnote(s1, self, kwargs)
        s3 == ptsu_ptsetunits(s2, self, kwargs)
        rest == Pop(Pop(Pop(kwargs, "ptverbose"), "ptnote"), "ptsetunits")
        s4 == IF s3.exc # "none" THEN s3 ELSE ptsu_loop(s3, self, rest)
    IN IF first \/ s4.exc # "none" THEN s4 ELSE ptsu_ptverbose(s4, self, kwargs)

\* Parameters.ptsu
ptsu(s, self, kwargs) ==
    LET s1 == ptsu_ptverbose(s, self, kwargs)
        s2 == ptsu_ptnote(s1, self, kwargs)
        s3 == ptsu_ptsetunits(s2, self, kwargs)
        rest == Pop(Pop(Pop(kwargs, "ptverbose"), "ptnote"), "ptsetunits")
    IN IF s3.exc # "none" THEN s3 ELSE ptsu_loop(s3, self, rest)

\* {key: default for key in param_list} as keyword pairs
RECURSIVE data_of(_, _)
data_of(keys, default) ==
    IF keys = <<>> THEN <<>>
    ELSE <<[key |-> Head(keys), val |-> default]>> \o data_of(Tail(keys), default)

\* Mutation of ptinit: a name that is already declared is left as it is.
ptinit_keeps_declared(s, self, param_list, default, use_types) ==
    IF ~param_list.list
    THEN post(s, "init: not a list ignored", "", FALSE)
    ELSE LET s1 == post(s, "init: initializing", "", quiet(s, self))
             s2 == [s1 EXCEPT !.attr[self] =
                        Put(@, "__pt_init_flag__", IF use_types THEN False ELSE True)]
             s3 == ptsu(s2, self, data_of(SelectSeq(param_list.keys,
                                                    LAMBDA key : key \notin DOMAIN s.pardict[self]),
                                          default))
         IN IF s3.exc # "none" THEN s3
            ELSE [s3 EXCEPT !.attr[self] = Put(@, "__pt_init_flag__", False)]

\* Parameters.ptinit.  param_list is [list |-> TRUE, keys |-> the names] for a
\* list of names (or a comma-separated str of them that names no file), and
\* [list |-> FALSE, ...] for a value that is neither a str nor a list.
ptinit(s, self, param_list, default, use_types) ==
    IF ~param_list.list
    THEN post(s, "init: not a list ignored", "", FALSE)
    ELSE LET s1 == post(s, "init: initializing", "", quiet(s, self))
             s2 == [s1 EXCEPT !.attr[self] =
                        Put(@, "__pt_init_flag__", IF use_types THEN False ELSE True)]
             s3 == ptsu(s2, self, data_of(param_list.keys, default))
         IN IF s3.exc # "none" THEN s3
            ELSE [s3 EXCEPT !.attr[self] = Put(@, "__pt_init_flag__", False)]

\* the default of ptget's `default` parameter: the class ParameterTrackError
NoDefault == "ParameterTrackError"

\* Mutation of ptget: a name that ptinit declared and nothing typed counts
\* as not found.
ptget_untyped_unset(s, self, key, default) ==
    IF key \in DOMAIN s.pardict[self] /\ s.pardict[self][key] # _internal_self_type
    THEN [exc |-> "none", val |-> s.attr[self][key]]
    ELSE IF default = NoDefault
    THEN [exc |-> "ParameterTrackError", val |-> None]
    ELSE [exc |-> "none", val |-> default]

\* Parameters.ptget: [exc, val]
ptget(s, self, key, default) ==
    IF key \in DOMAIN s.pardict[self]
    THEN [exc |-> "none", val |-> s.attr[self][key]]
    ELSE IF default = NoDefault
    THEN [exc |-> "ParameterTrackError", val |-> None]
    ELSE [exc |-> "none", val |-> default]

\* an argument of ptdel that is neither a str nor a list
NotAName == "<not a str>"

\* Mutation of ptdel_name: the deletion is posted and nothing is removed.
ptdel_name_posts_only(s, self, k) ==
    IF k = NotAName
    THEN post(s, "del: not a name ignored", "", FALSE)
    ELSE IF k \in _internal_only_ptvar \/ k \in _internal_only_ptdef
    THEN post(s, "del: internal ignored", k, FALSE)
    ELSE IF k \in DOMAIN s.pardict[self]
    THEN post(s, "del: deleted", k, quiet(s, self))
    ELSE post(s, "del: unknown ignored", k, FALSE)

\* ptdel, one name
ptdel_name(s, self, k) ==
    IF k = NotAName
    THEN post(s, "del: not a name ignored", "", FALSE)
    ELSE IF k \in _internal_only_ptvar \/ k \in _internal_only_ptdef
    THEN post(s, "del: internal ignored", k, FALSE)
    ELSE IF k \in DOMAIN s.pardict[self]
    THEN LET s1 == post(s, "del: deleted", k, quiet(s, self))
         IN [s1 EXCEPT !.attr[self] = Del(@, k), !.pardict[self] = Del(@, k)]
    ELSE post(s, "del: unknown ignored", k, FALSE)

\* Mutation of ptdel: the batch ends at the first name that is not deleted.
RECURSIVE ptdel_stops(_, _, _)
ptdel_stops(s, self, args) ==
    IF args = <<>> THEN s
    ELSE LET s1 == ptdel_name(s, self, Head(args))
         IN IF s1.pardict = s.pardict THEN s1 ELSE ptdel_stops(s1, self, Tail(args))

\* Parameters.ptdel, each argument one name
RECURSIVE ptdel(_, _, _)
ptdel(s, self, args) ==
    IF args = <<>> THEN s
    ELSE ptdel(ptdel_name(s, self, Head(args)), self, Tail(args))

\* include_par=None
NoFilter == <<"<None>">>

\* the names pt_to_dict goes through, in a fixed order
RECURSIVE SeqOf(_)
SeqOf(S) == IF S = {} THEN <<>> ELSE LET x == CHOOSE x \in S : TRUE IN <<x>> \o SeqOf(S \ {x})

\* Parameters.pt_to_dict with serialize=None: [exc, rec]
RECURSIVE pt_to_dict_loop(_, _, _, _, _)
pt_to_dict_loop(s, self, include_par, types_to_dict, rec) ==
    IF include_par = <<>> THEN [exc |-> "none", rec |-> rec]
    ELSE LET key == Head(include_par)
         IN IF key \notin DOMAIN s.attr[self]
            THEN [exc |-> "AttributeError", rec |-> EmptyDict]
            ELSE pt_to_dict_loop(s, self, Tail(include_par), types_to_dict,
                     Put(rec, key,
                         IF types_to_dict
                         THEN (IF key \in DOMAIN s.pardict[self]
                               THEN s.pardict[self][key] ELSE None)
                         ELSE s.attr[self][key]))

\* Mutation of pt_to_dict: include_par is not looked at.
pt_to_dict_unfiltered(s, self, include_par, types_to_dict) ==
    IF types_to_dict = "__internal__"
    THEN pt_to_dict_loop(s, self,
             SeqOf({x \in _internal_only_ptvar : ~Private(x)}), FALSE, EmptyDict)
    ELSE pt_to_dict_loop(s, self, SeqOf(DOMAIN s.pardict[self]), types_to_dict = "True", EmptyDict)

pt_to_dict(s, self, include_par, types_to_dict) ==
    IF types_to_dict = "__internal__"
    THEN pt_to_dict_loop(s, self,
             SeqOf({x \in _internal_only_ptvar : ~Private(x)}), FALSE, EmptyDict)
    ELSE pt_to_dict_loop(s, self,
             IF include_par = NoFilter THEN SeqOf(DOMAIN s.pardict[self]) ELSE include_par,
             types_to_dict = "True", EmptyDict)

\* the actions ptlog knows, and one it does not
LogActions == {"return", "show", "clear", "dump", "purge"}

\* Parameters.ptlog: 'clear' binds __log__.log to a new empty list; 'return',
\* 'show' and 'dump' read the log
ptlog(s, action) ==
    IF action \in {"return", "show", "dump"} THEN s
    ELSE IF action = "clear" THEN [s EXCEPT !.log = <<>>, !.cleared = TRUE]
    ELSE raise(s, "ParameterTrackError")

\* Parameters.ptshow with return_only: [exc, val, rec], val the note of the
\* heading and rec the parameters shown; show_all adds the types and the
\* internal parameters, which are read the same way
ptshow(s, self, show_all, include_par) ==
    LET values == pt_to_dict(s, self, include_par, "False")
        types == pt_to_dict(s, self, include_par, "True")
        internal == pt_to_dict(s, self, NoFilter, "__internal__")
        shown == [exc |-> "none", val |-> s.attr[self]["ptnote"], rec |-> values.rec]
    IN IF values.exc # "none" THEN [exc |-> values.exc, val |-> None, rec |-> EmptyDict]
       ELSE IF ~show_all THEN shown
       ELSE IF types.exc # "none" THEN [exc |-> types.exc, val |-> None, rec |-> EmptyDict]
       ELSE IF internal.exc # "none" THEN [exc |-> internal.exc, val |-> None, rec |-> EmptyDict]
       ELSE shown

\* Parameters.__init__(ptnote, ptstrict, ..., ptsetunits, **kwargs): a is the
\* record of the named arguments, ptinit among them ('__ignore__' or a list)
Ignore == [list |-> FALSE, keys |-> <<"__ignore__">>]

Kw(key, val) == [key |-> key, val |-> val]

\* Mutation of __init__: the keyword arguments go through ptset, under the
\* flags just set, and not through ptadd.
__init___sets(s, self, a, kwargs) ==
    LET s1 == post(post(s, "version", "", TRUE), "init: Parameters", "", TRUE)
        s2 == ptsu([s1 EXCEPT !.attr[self] = EmptyDict, !.pardict[self] = EmptyDict], self,
                   <<Kw("ptnote", a.ptnote), Kw("ptstrict", a.ptstrict), Kw("pterr", a.pterr),
                     Kw("ptverbose", a.ptverbose), Kw("pttype", a.pttype),
                     Kw("pttypeerr", a.pttypeerr), Kw("ptsetunits", a.ptsetunits)>>)
        s3 == IF a.ptinit # Ignore THEN ptinit(s2, self, a.ptinit, None, FALSE) ELSE s2
    IN IF s2.exc # "none" THEN s2
       ELSE IF s3.exc # "none" THEN s3
       ELSE ptset(s3, self, kwargs)

__init__(s, self, a, kwargs) ==
    LET s1 == post(post(s, "version", "", TRUE), "init: Parameters", "", TRUE)
        s2 == ptsu([s1 EXCEPT !.attr[self] = EmptyDict, !.pardict[self] = EmptyDict], self,
                   <<Kw("ptnote", a.ptnote), Kw("ptstrict", a.ptstrict), Kw("pterr", a.pterr),
                     Kw("ptverbose", a.ptverbose), Kw("pttype", a.pttype),
                     Kw("pttypeerr", a.pttypeerr), Kw("ptsetunits", a.ptsetunits)>>)
        s3 == IF a.ptinit # Ignore THEN ptinit(s2, self, a.ptinit, None, FALSE) ELSE s2
    IN IF s2.exc # "none" THEN s2
       ELSE IF s3.exc # "none" THEN s3
       ELSE ptadd(s3, self, kwargs)

\* the defaults of __init__'s arguments; ptnote is a str
Defaults ==
    [ptnote |-> "s:x", ptstrict |-> True, pterr |-> False, ptverbose |-> True,
     ptinit |-> Ignore, pttype |-> False, pttypeerr |-> False, ptsetunits |-> False]

-----------------------------------------------------------------------------
(* The calls a program makes on its Parameters objects *)

\* the process before any Parameters object exists: the module-level __ptu__
Fresh ==
    [attr |-> [i \in Insts |-> EmptyDict], pardict |-> [i \in Insts |-> EmptyDict],
     ptu |-> Units__init__, log |-> <<>>, cleared |-> FALSE, exc |-> "none"]

\* the state a call starts from.  __log__.log is kept as what the call makes
\* of it: posted collects the entries the call appends, and cleared tells
\* that the call has emptied the list before them
Cur ==
    [attr |-> attr, pardict |-> pardict, ptu |-> ptu, log |-> <<>>, cleared |-> FALSE,
     exc |-> "none"]

\* the call just made: the method, the object and the arguments
Call(op, self, kw, names, dflt, opt) ==
    [op |-> op, self |-> self, kw |-> kw, names |-> names, dflt |-> dflt, opt |-> opt]

NoRet == [val |-> None, rec |-> EmptyDict]

\* the call ends in state s, raising s.exc or returning r
Return(s, c, r) ==
    /\ attr' = s.attr
    /\ pardict' = s.pardict
    /\ ptu' = s.ptu
    /\ posted' = s.log
    /\ cleared' = s.cleared
    /\ raised' = s.exc
    /\ ret' = r
    /\ call' = c

Constructed(self) == "ptverbose" \in DOMAIN attr[self]

PtSet(self, kwargs) ==
    /\ Constructed(self)
    /\ Return(ptset(Cur, self, kwargs), Call("ptset", self, kwargs, <<>>, None, ""), NoRet)

PtAdd(self, kwargs) ==
    /\ Constructed(self)
    /\ Return(ptadd(Cur, self, kwargs), Call("ptadd", self, kwargs, <<>>, None, ""), NoRet)

PtSu(self, kwargs) ==
    /\ Constructed(self)
    /\ Return(ptsu(Cur, self, kwargs), Call("ptsu", self, kwargs, <<>>, None, ""), NoRet)

PtInit(self, param_list, default, use_types) ==
    /\ Constructed(self)
    /\ Return(ptinit(Cur, self, param_list, default, use_types),
              Call("ptinit", self, <<>>, param_list.keys, default,
                   IF ~param_list.list THEN "not a list"
                   ELSE IF use_types THEN "use_types" ELSE ""),
              NoRet)

PtDel(self, args) ==
    /\ Constructed(self)
    /\ Return(ptdel(Cur, self, args), Call("ptdel", self, <<>>, args, None, ""), NoRet)

\* Mutation of PtGet: a default returned for an unknown name is stored under
\* the name, as dict.setdefault does.
PtGet_setdefault(self, key, default) ==
    /\ Constructed(self)
    /\ LET r == ptget(Cur, self, key, default)
           stored == IF key \notin DOMAIN pardict[self] /\ r.exc = "none"
                     THEN _pt_set_new(Cur, self, key, default)
                     ELSE Cur
       IN Return(raise(stored, r.exc), Call("ptget", self, <<>>, <<key>>, default, ""),
                 [val |-> r.val, rec |-> EmptyDict])

PtGet(self, key, default) ==
    /\ Constructed(self)
    /\ LET r == ptget(Cur, self, key, default)
       IN Return(raise(Cur, r.exc), Call("ptget", self, <<>>, <<key>>, default, ""),
                 [val |-> r.val, rec |-> EmptyDict])

PtToDict(self, include_par, types_to_dict) ==
    /\ Constructed(self)
    /\ LET r == pt_to_dict(Cur, self, include_par, types_to_dict)
       IN Return(raise(Cur, r.exc),
                 Call("pt_to_dict", self, <<>>, include_par, None, types_to_dict),
                 [val |-> None, rec |-> r.rec])

PtLog(self, action) ==
    /\ Constructed(self)
    /\ Return(ptlog(Cur, action), Call("ptlog", self, <<>>, <<>>, None, action),
              [val |-> IF action = "return" THEN "__log__" ELSE None, rec |-> EmptyDict])

PtShow(self, show_all, include_par) ==
    /\ Constructed(self)
    /\ LET r == ptshow(Cur, self, show_all, include_par)
       IN Return(raise(Cur, r.exc),
                 Call("ptshow", self, <<>>, include_par, None, IF show_all THEN "show_all" ELSE ""),
                 [val |-> r.val, rec |-> r.rec])

\* self = Parameters(**a, **kwargs): the name is bound to the new object when
\* __init__ returns, and stays bound to the object it named when __init__
\* raises; what __init__ did to __ptu__ and posted stays either way
New(self, a, kwargs) ==
    /\ self \in Insts
    /\ \E s \in {__init__(Cur, self, a, kwargs)} :
           Return(IF s.exc = "none" THEN s
                  ELSE [s EXCEPT !.attr[self] = attr[self], !.pardict[self] = pardict[self]],
                  Call("__init__", self, kwargs, IF a.ptinit.list THEN a.ptinit.keys ELSE <<>>,
                       None, a.ptsetunits),
                  NoRet)

\* A = Parameters()
Init ==
    LET s == __init__(Fresh, "A", Defaults, <<>>)
    IN /\ attr = s.attr
       /\ pardict = s.pardict
       /\ ptu = s.ptu
       /\ posted = s.log
       /\ cleared = s.cleared
       /\ raised = s.exc
       /\ ret = NoRet
       /\ call = Call("__init__", "A", <<>>, <<>>, None, Defaults.ptsetunits)

-----------------------------------------------------------------------------
(* The arguments the calls are given *)

\* the values given for a parameter
Vals == {None, "s:1"} \cup {"i:" \o ToString(n) : n \in 1..MaxInt}

\* the (name, value) pairs given to ptset and ptadd: every value for a, and a
\* reserved name
SetPairs == {Kw("a", val) : val \in Vals} \cup {Kw("ptstrict", False)}

\* the pairs given to ptsu: a parameter, the mode flags with bool and non-bool
\* values, a method name and a private name
ModeFlags == {"ptstrict", "pterr", "pttype", "pttypeerr"}

SuPairs ==
    {Kw("a", val) : val \in Vals}
        \cup {Kw(key, val) : key \in ModeFlags, val \in {True, False}}
        \cup {Kw("pttype", "i:1"), Kw("ptget", True), Kw("_internal_pardict", True)}

\* ptsu(ptsetunits=...): the unit handler {'a': 'int'}, and units off
UnitPairs == {Kw("ptsetunits", HandlerInt), Kw("ptsetunits", False)}

\* the (param_list, default) given to ptinit
List(keys) == [list |-> TRUE, keys |-> keys]

NotAList == [list |-> FALSE, keys |-> <<>>]

InitArgs ==
    {<<List(<<"a">>), None>>, <<List(<<"a", "b">>), None>>,
     <<List(<<"ptstrict">>), False>>, <<NotAList, None>>}

-----------------------------------------------------------------------------
(* Spec: one store, calls of one (name, value) pair, unit coercion never set *)

\* ptdel of one name and of batches: a reserved name, an unknown one and a
\* declared one; a name twice, around an argument that is no name
DelArgs ==
    {<<"a">>, <<"ptstrict">>, <<"ptstrict", "c", "a">>, <<"b", NotAName, "b">>}

\* include_par of pt_to_dict: None, ['a'], ['b', 'a']
ToDictArgs == {NoFilter, <<"a">>, <<"b", "a">>}

Next ==
    \/ \E p \in SetPairs : PtSet("A", <<p>>)
    \/ \E p \in SetPairs : PtAdd("A", <<p>>)
    \/ \E p \in SuPairs : PtSu("A", <<p>>)
    \/ \E a \in InitArgs : PtInit("A", a[1], a[2], FALSE)
    \/ \E args \in DelArgs : PtDel("A", args)
    \/ \E default \in {NoDefault, "i:2"} : PtGet("A", "a", default)
    \/ \E include_par \in ToDictArgs : PtToDict("A", include_par, "False")

Spec == Init /\ [][Next]_vars

-----------------------------------------------------------------------------
(* SpecUnits: one store of one name, with the unit handler set and unset *)

NextUnits ==
    \/ \E p \in SetPairs : PtSet("A", <<p>>)
    \/ \E p \in SetPairs : PtAdd("A", <<p>>)
    \/ \E p \in SuPairs \cup UnitPairs : PtSu("A", <<p>>)
    \/ PtInit("A", List(<<"a">>), None, FALSE)
    \/ PtDel("A", <<"a">>)
    \/ PtGet("A", "a", NoDefault)

SpecUnits == Init /\ [][NextUnits]_vars

-----------------------------------------------------------------------------
(* SpecReserved: one store of one name, every reserved name given to ptset *)
(* and ptadd, with ptverbose on and off                                    *)

ReservedPairs == {Kw(key, False) : key \in Reserved}

QuietPairs ==
    {Kw("a", val) : val \in Vals}
        \cup {Kw(key, val) : key \in {"ptverbose", "pttype", "pttypeerr", "ptstrict"},
                             val \in {True, False}}
        \cup {Kw("ptverbose", "i:0"), Kw("pttype", "i:1")}

NextReserved ==
    \/ \E p \in SetPairs \cup ReservedPairs : PtSet("A", <<p>>)
    \/ \E p \in SetPairs \cup ReservedPairs : PtAdd("A", <<p>>)
    \/ \E p \in QuietPairs : PtSu("A", <<p>>)
    \/ PtDel("A", <<"a">>)

SpecReserved == Init /\ [][NextReserved]_vars

-----------------------------------------------------------------------------
(* SpecAdd: ptadd of batches of the names a and b under every setting of   *)
(* the four flags                                                          *)

\* batches of one and of two pairs of names that are not reserved
AddBatches ==
    {<<Kw("a", None)>>, <<Kw("a", "s:1")>>,
     <<Kw("a", "i:1"), Kw("b", "s:1")>>, <<Kw("b", None), Kw("a", "i:1")>>}

FlagPairs == {Kw(key, val) : key \in ModeFlags, val \in {True, False}}

NextAdd ==
    \/ \E batch \in AddBatches : PtAdd("A", batch)
    \/ \E p \in FlagPairs : PtSu("A", <<p>>)
    \/ PtSet("A", <<Kw("a", "i:1")>>)
    \/ PtInit("A", List(<<"a", "b">>), None, FALSE)
    \/ PtDel("A", <<"a">>)

SpecAdd == Init /\ [][NextAdd]_vars

-----------------------------------------------------------------------------
(* SpecRead: a store of the names a and b, and every read of it *)

ReadWrites == {Kw("a", "i:1"), Kw("a", None), Kw("ptstrict", False)}

\* the name asked of ptget and the default given
GetArgs == {"a", "b", "ptstrict"} \X {NoDefault, None, "i:2"}

\* include_par: None, declared names, a flag, a name that may be undeclared
ReadFilters == {NoFilter, <<"a">>, <<"b", "a">>, <<"ptstrict">>}

NextRead ==
    \/ \E p \in ReadWrites : PtAdd("A", <<p>>)
    \/ \E p \in ReadWrites : PtSet("A", <<p>>)
    \/ \E default \in {None, "i:1"} : PtInit("A", List(<<"a", "b">>), default, FALSE)
    \/ PtDel("A", <<"a">>)
    \/ \E g \in GetArgs : PtGet("A", g[1], g[2])
    \/ \E include_par \in ReadFilters, types_to_dict \in {"False", "True", "__internal__"} :
           PtToDict("A", include_par, types_to_dict)
    \/ \E include_par \in ReadFilters, show_all \in BOOLEAN : PtShow("A", show_all, include_par)

SpecRead == Init /\ [][NextRead]_vars

-----------------------------------------------------------------------------
(* SpecBatch: a store of the names a, b and c, ptset of three pairs at once *)

BatchVals == {"i:1", "s:1"}

\* ptset(a=x, b=y, c=z)
SetBatches == {<<Kw("a", x), Kw("b", y), Kw("c", z)>> : x, y, z \in BatchVals}

NextBatch ==
    \/ \E batch \in SetBatches : PtSet("A", batch)
    \/ \E key \in {"a", "b", "c"} : PtAdd("A", <<Kw(key, "i:1")>>)
    \/ \E p \in FlagPairs : PtSu("A", <<p>>)
    \/ PtDel("A", <<"a", "b", "c">>)

SpecBatch == Init /\ [][NextBatch]_vars

-----------------------------------------------------------------------------
(* SpecTwo: two Parameters objects in one process, each with the name a, *)
(* and the unit handler set through either                               *)

TwoPairs == {Kw("a", "s:1"), Kw("a", "i:2")}

NextTwo ==
    \/ \E self \in Insts : New(self, Defaults, <<>>)
    \/ \E self \in Insts, p \in UnitPairs : PtSu(self, <<p>>)
    \/ \E self \in Insts, p \in TwoPairs : PtAdd(self, <<p>>)
    \/ \E self \in Insts, p \in TwoPairs : PtSet(self, <<p>>)
    \/ \E self \in Insts : PtInit(self, List(<<"a">>), None, FALSE)
    \/ \E self \in Insts : PtDel(self, <<"a">>)

SpecTwo == Init /\ [][NextTwo]_vars

-----------------------------------------------------------------------------
(* SpecInit: ptinit of lists of the names a and b with a default, on a *)
(* store that may hold a and b already, with and without units         *)

\* ptinit(param_list, default)
InitLists == {List(<<"a">>), List(<<"b">>), List(<<"b", "a">>)} \X {None, "s:1"}

NextInit ==
    \/ \E i \in InitLists : PtInit("A", i[1], i[2], FALSE)
    \/ \E key \in {"a", "b"}, val \in {"i:2", "s:x"} : PtAdd("A", <<Kw(key, val)>>)
    \/ \E p \in UnitPairs : PtSu("A", <<p>>)
    \/ PtSet("A", <<Kw("a", "i:1")>>)
    \/ PtDel("A", <<"a", "b">>)

SpecInit == Init /\ [][NextInit]_vars

-----------------------------------------------------------------------------
(* SpecCtor: construction with mode flags, a unit handler, a ptinit list *)
(* and keyword arguments                                                 *)

\* (ptstrict, pterr, pttype, pttypeerr): the defaults, all on, and an int
CtorFlags == {<<True, False, False, False>>, <<True, True, True, True>>,
              <<"i:1", True, False, True>>}

\* ptsetunits: off, the handler {'a': 'int'}, the name of a file that is not there
CtorUnits == {False, HandlerInt, "s:x"}

CtorLists == {Ignore, NotAList, List(<<"b">>), List(<<"a", "b">>)}

CtorArgs ==
    {[Defaults EXCEPT !.ptstrict = f[1], !.pterr = f[2], !.pttype = f[3], !.pttypeerr = f[4],
                      !.ptsetunits = u, !.ptinit = i] :
         f \in CtorFlags, u \in CtorUnits, i \in CtorLists}

\* **kwargs
CtorKwargs == {<<>>, <<Kw("a", "s:1")>>, <<Kw("a", None)>>, <<Kw("c", "i:2"), Kw("a", "i:1")>>}

NextCtor ==
    \/ \E a \in CtorArgs, kwargs \in CtorKwargs : New("A", a, kwargs)
    \/ PtAdd("A", <<Kw("a", "i:2")>>)
    \/ PtDel("A", <<"a">>)

SpecCtor == Init /\ [][NextCtor]_vars

-----------------------------------------------------------------------------
(* SpecSu: ptsu of batches that hold ptverbose, ptnote and ptsetunits among *)
(* other pairs, on a store of the name a                                    *)

\* ptsu(**batch) with ptverbose=v at some place of the batch
SuBatchesOf(v) ==
    {<<Kw("ptverbose", v)>>,
     <<Kw("a", "i:1"), Kw("ptverbose", v)>>,
     <<Kw("ptnote", "s:x"), Kw("a", "s:1"), Kw("ptverbose", v)>>,
     <<Kw("ptget", True), Kw("ptsetunits", HandlerInt), Kw("ptverbose", v), Kw("ptnote", None)>>,
     <<Kw("ptstrict", "i:1"), Kw("ptverbose", v), Kw("ptsetunits", HandlerBad)>>}

SuBatches ==
    SuBatchesOf(True) \cup SuBatchesOf(False) \cup SuBatchesOf("i:0")
        \cup {<<Kw("ptnote", "s:1")>>, <<Kw("a", "i:2")>>, <<Kw("ptsetunits", False)>>,
              <<Kw("pttype", True), Kw("a", None)>>}

NextSu ==
    \/ \E batch \in SuBatches : PtSu("A", batch)
    \/ PtInit("A", List(<<"a">>), None, FALSE)
    \/ \E val \in {"s:1", "i:2"} : PtAdd("A", <<Kw("a", val)>>)
    \/ PtDel("A", <<"a">>)

SpecSu == Init /\ [][NextSu]_vars

-----------------------------------------------------------------------------
(* SpecLog: two Parameters objects that post to the one Log, and ptlog *)

NextLog ==
    \/ \E self \in Insts : New(self, Defaults, <<>>)
    \/ \E self \in Insts, p \in TwoPairs : PtAdd(self, <<p>>)
    \/ \E self \in Insts, p \in TwoPairs : PtSet(self, <<p>>)
    \/ \E self \in Insts : PtDel(self, <<"a">>)
    \/ \E self \in Insts, action \in LogActions : PtLog(self, action)

SpecLog == Init /\ [][NextLog]_vars

-----------------------------------------------------------------------------
(* SpecTyped: a store changed by ptadd, ptdel and ptset only, pttype off, *)
(* never by ptinit or by ptsu of a parameter                              *)

\* Parameters(ptsetunits={'a': 'int'})
CtorHandler == [Defaults EXCEPT !.ptsetunits = HandlerInt]

TypedPairs == {Kw(key, val) : key \in {"a", "b"}, val \in {None, "s:1", "s:x", "i:2"}}

\* the flags ptsu may set here: every mode flag but pttype
TypedFlags == {Kw(key, val) : key \in {"ptstrict", "pterr", "pttypeerr"}, val \in {True, False}}

NextTyped ==
    \/ \E a \in {Defaults, CtorHandler} : New("A", a, <<>>)
    \/ \E p \in TypedPairs : PtAdd("A", <<p>>)
    \/ \E p \in TypedPairs : PtSet("A", <<p>>)
    \/ \E key \in {"a", "b"} : PtDel("A", <<key>>)
    \/ \E p \in TypedFlags : PtSu("A", <<p>>)

SpecTyped == Init /\ [][NextTyped]_vars

-----------------------------------------------------------------------------
(* SpecMarker: ptinit that returns and ptinit that raises, and ptsu of the *)
(* names b and c afterwards                                                *)

\* ptinit(['a']), which returns, and ptinit(['ptsetunits'], default='x'),
\* where ptsu raises for the file 'x' that is not there
MarkerInits == {<<List(<<"a">>), None>>, <<List(<<"ptsetunits">>), "s:x">>}

MarkerPairs == {Kw(key, val) : key \in {"b", "c"}, val \in {None, "i:1", "s:1"}}

NextMarker ==
    \/ \E i \in MarkerInits : PtInit("A", i[1], i[2], FALSE)
    \/ \E p \in MarkerPairs : PtSu("A", <<p>>)
    \/ \E key \in {"b", "c"} : PtAdd("A", <<Kw(key, "i:2")>>)
    \/ \E key \in {"b", "c"} : PtDel("A", <<key>>)

SpecMarker == Init /\ [][NextMarker]_vars

-----------------------------------------------------------------------------
(* The claims *)

\* the call c is op(**{key: val}) with one pair
IsPair(c, op) == c.op = op /\ Len(c.kw) = 1

Key(c) == c.kw[1].key

Val(c) == c.kw[1].val

\* the entries just posted hold one of this message for this name
Posted(log, message, key) == \E n \in 1..Len(log) : log[n].msg = message /\ log[n].key = key

\* C1: with unit coercion off, after ptadd({name: v}) of a name that is not
\* reserved, ptget(name) returns v, whatever the store held and whatever the
\* mode flags are.
C1_AddThenGet ==
    (IsPair(call, "ptadd") /\ Key(call) \notin Reserved /\ ~ptu.use_units)
        => ptget(Cur, call.self, Key(call), NoDefault) = [exc |-> "none", val |-> Val(call)]

\* ptadd(a='1') was made in strict mode with type checking and its error on,
\* with a unit handler present and units switched off
C1_Witness ==
    /\ IsPair(call, "ptadd") /\ Key(call) = "a" /\ Val(call) = "s:1"
    /\ ~ptu.use_units /\ ptu.valid_unit_handler
    /\ flag(Cur, "A", "ptstrict") /\ flag(Cur, "A", "pttype") /\ flag(Cur, "A", "pttypeerr")
    /\ ptget(Cur, "A", "a", NoDefault).val = "s:1"

\* C2: ptset of a name that is neither declared nor reserved, with ptstrict
\* on, raises ParameterTrackError when pterr is on; when pterr is off it
\* returns and leaves the declared types, every value and every flag as
\* they were.
C2_StrictUnknown ==
    [][(/\ IsPair(call', "ptset")
        /\ Key(call') \notin Reserved
        /\ Key(call') \notin DOMAIN pardict[call'.self]
        /\ flag(Cur, call'.self, "ptstrict"))
       => IF flag(Cur, call'.self, "pterr")
          THEN raised' = "ParameterTrackError"
          ELSE raised' = "none" /\ pardict' = pardict /\ attr' = attr]_vars

\* ptset(a=...) was ignored in strict mode while another name is declared
C2_Witness ==
    /\ IsPair(call, "ptset") /\ Key(call) = "a"
    /\ raised = "none"
    /\ posted = <<LogEntry("set: unknown ignored", "a", FALSE)>>
    /\ DOMAIN pardict["A"] = {"b"}

\* the two cases in which ptset raises, for the call c made in this state
RaisesUnknown(c) ==
    /\ Key(c) \notin DOMAIN pardict[c.self]
    /\ flag(Cur, c.self, "ptstrict") /\ flag(Cur, c.self, "pterr")

RaisesMismatch(c) ==
    /\ Key(c) \in DOMAIN pardict[c.self]
    /\ pardict[c.self][Key(c)] # _internal_self_type
    /\ type(Val(c)) # pardict[c.self][Key(c)]
    /\ flag(Cur, c.self, "pttype") /\ flag(Cur, c.self, "pttypeerr")

C4_NotCommitted ==
    [][(/\ IsPair(call', "ptset")
        /\ RaisesMismatch(call')
        /\ raised' = "ParameterTrackError")
       => /\ attr'[call'.self][Key(call')] = attr[call'.self][Key(call')]
          /\ pardict'[call'.self][Key(call')] = pardict[call'.self][Key(call')]]_vars

\* ptset of a value of another type on a declared name with a concrete type
Mismatch(c) ==
    /\ IsPair(c, "ptset")
    /\ Key(c) \in DOMAIN pardict[c.self]
    /\ pardict[c.self][Key(c)] # _internal_self_type
    /\ type(Val(c)) # pardict[c.self][Key(c)]

\* C5: ptset of a value of another type on a declared name with a concrete
\* type, with pttype on and pttypeerr off, does not raise, leaves the declared
\* type of the name as it was and posts a retain entry that is not silent.
C5_RetainType ==
    [][(Mismatch(call') /\ flag(Cur, call'.self, "pttype") /\ ~flag(Cur, call'.self, "pttypeerr"))
       => /\ raised' = "none"
          /\ pardict'[call'.self][Key(call')] = pardict[call'.self][Key(call')]
          /\ \E n \in 1..Len(posted') :
                 posted'[n] = LogEntry("set: retain", Key(call'), FALSE)]_vars

\* ptset(a='1') on the int a was retained with ptverbose off: the entry of
\* the set is silent, the retain entry is not
C5_Witness ==
    /\ IsPair(call, "ptset") /\ Key(call) = "a" /\ Val(call) = "s:1"
    /\ "a" \in DOMAIN pardict["A"] /\ pardict["A"]["a"] = "int"
    /\ ~flag(Cur, "A", "ptverbose")
    /\ posted = <<LogEntry("set: existing", "a", TRUE), LogEntry("set: retain", "a", FALSE)>>

\* C6 as stated: in the case of C5 the old value is kept, ptget(name) returns
\* after the call what it returned before.
C6_Original ==
    [][(Mismatch(call') /\ flag(Cur, call'.self, "pttype") /\ ~flag(Cur, call'.self, "pttypeerr"))
       => ptget(Cur', call'.self, Key(call'), NoDefault)
              = ptget(Cur, call'.self, Key(call'), NoDefault)]_vars

\* C6 amended: in the case of C5 the new value is committed, as the unit
\* hook converts it, and only the declared type is kept: ptget(name) returns
\* the new value after the call.
C6_CommitsRetainsType ==
    [][(Mismatch(call') /\ flag(Cur, call'.self, "pttype") /\ ~flag(Cur, call'.self, "pttypeerr"))
       => /\ ptget(Cur', call'.self, Key(call'), NoDefault)
                 = [exc |-> "none", val |-> ptu_val(ptu, Key(call'), Val(call'))]
          /\ pardict'[call'.self][Key(call')] = pardict[call'.self][Key(call')]]_vars

\* the str a now holds the int 2 of a retained ptset(a=2)
C6_Witness ==
    /\ IsPair(call, "ptset") /\ Key(call) = "a" /\ Val(call) = "i:2"
    /\ Posted(posted, "set: retain", "a")
    /\ "a" \in DOMAIN pardict["A"] /\ pardict["A"]["a"] = "str"
    /\ attr["A"]["a"] = "i:2"

\* ptset of a value of the declared type on a declared name with a concrete type
SameType(c) ==
    /\ IsPair(c, "ptset")
    /\ Key(c) \in DOMAIN pardict[c.self]
    /\ pardict[c.self][Key(c)] # _internal_self_type
    /\ type(Val(c)) = pardict[c.self][Key(c)]

C8_FirstSetTypes ==
    [][(/\ IsPair(call', "ptset")
        /\ Key(call') \in DOMAIN pardict[call'.self]
        /\ pardict[call'.self][Key(call')] = _internal_self_type
        /\ Val(call') # None)
       => /\ raised' = "none"
          /\ pardict'[call'.self][Key(call')] = type(Val(call'))
          /\ ~Posted(posted', "set: retain", Key(call'))
          /\ \A k \in DOMAIN pardict[call'.self] \ {Key(call')} :
                 pardict[call'.self][k] = _internal_self_type
                     => pardict'[call'.self][k] = _internal_self_type]_vars

\* after ptinit(['a', 'b']), ptset(a=1) with pttype and pttypeerr on made a
\* an int and left b untyped
C8_Witness ==
    /\ IsPair(call, "ptset") /\ Key(call) = "a" /\ Val(call) = "i:1"
    /\ Posted(posted, "set: type initialized", "a")
    /\ pardict["A"] = [k \in {"a", "b"} |-> IF k = "a" THEN "int" ELSE _internal_self_type]
    /\ flag(Cur, "A", "pttype") /\ flag(Cur, "A", "pttypeerr")

\* C9: ptset and ptadd of a reserved name raise nothing, leave every
\* attribute and the declared names as they were and post one entry, which
\* is not silent, that the name was ignored; ptsu(ptstrict=False) sets
\* ptstrict to False.
C9_ReservedRefused ==
    [][/\ ((IsPair(call', "ptset") \/ IsPair(call', "ptadd")) /\ Key(call') \in Reserved)
           => /\ raised' = "none"
              /\ attr' = attr
              /\ pardict' = pardict
              /\ posted' \in {<<LogEntry("set: internal ignored", Key(call'), FALSE)>>,
                              <<LogEntry("add: internal ignored", Key(call'), FALSE)>>}
       /\ (IsPair(call', "ptsu") /\ call'.kw[1] = Kw("ptstrict", False))
           => /\ raised' = "none"
              /\ attr'[call'.self]["ptstrict"] = False]_vars

\* ptset(ptstrict=False) was refused with ptverbose off, ptstrict still on
C9_Witness ==
    /\ IsPair(call, "ptset") /\ call.kw[1] = Kw("ptstrict", False)
    /\ attr["A"]["ptstrict"] = True
    /\ ~flag(Cur, "A", "ptverbose")
    /\ posted = <<LogEntry("set: internal ignored", "ptstrict", FALSE)>>

ModeFlagNames == {"ptstrict", "pterr", "ptverbose", "pttype", "pttypeerr"}

\* C10: no call of ptset, ptadd, ptdel, ptget, pt_to_dict or ptinit changes
\* the value of ptstrict, pterr, ptverbose, pttype or pttypeerr.
C10_FlagsOnlyBySu ==
    [][call'.op \in {"ptset", "ptadd", "ptdel", "ptget", "pt_to_dict", "ptinit"}
       => \A f \in ModeFlagNames : attr'[call'.self][f] = attr[call'.self][f]]_vars

\* C11: in every state, a name that is not reserved is an attribute of the
\* object exactly when it is a key of _internal_pardict.
C11_Paired ==
    \A key \in DOMAIN attr["A"] \cup DOMAIN pardict["A"] :
        key \notin Reserved => (key \in DOMAIN attr["A"] <=> key \in DOMAIN pardict["A"])

-----------------------------------------------------------------------------
(* SpecDeclare: every reserved name given to ptset, ptadd, ptsu, ptinit and *)
(* the constructor                                                         *)

DeclarePairs == ReservedPairs \cup {Kw("a", "i:1")}

\* the reserved names that are not arguments of __init__ reach it in kwargs
CtorNames == {"ptnote", "ptstrict", "pterr", "ptverbose", "ptinit", "pttype", "pttypeerr",
              "ptsetunits"}

CtorPairs == {Kw(key, False) : key \in Reserved \ CtorNames} \cup {Kw("a", "i:1")}

InitNames == Reserved \cup {"a"}

\* Parameters(ptinit=['ptstrict', 'a'], ...)
CtorInit == [Defaults EXCEPT !.ptinit = List(<<"ptstrict", "a">>)]

NextDeclare ==
    \/ \E p \in DeclarePairs : PtSet("A", <<p>>)
    \/ \E p \in DeclarePairs : PtAdd("A", <<p>>)
    \/ \E p \in DeclarePairs : PtSu("A", <<p>>)
    \/ \E key \in InitNames : PtInit("A", List(<<key>>), None, FALSE)
    \/ \E key \in {"ptstrict", "a"} : PtInit("A", List(<<key>>), False, FALSE)
    \/ \E p \in CtorPairs : New("A", CtorInit, <<p>>)

SpecDeclare == Init /\ [][NextDeclare]_vars

\* C12: in every state no reserved name is a key of _internal_pardict,
\* whether ptinit, ptset, ptadd, ptsu or the keyword arguments of the
\* constructor were given it.
C12_ReservedUndeclared == \A self \in Insts : DOMAIN pardict[self] \cap Reserved = {}

\* Parameters(ptinit=['ptstrict', 'a'], _internal_pardict=False) was constructed,
\* and refused both names
C12_Witness ==
    /\ call.op = "__init__"
    /\ call.kw = <<Kw("_internal_pardict", False)>>
    /\ call.names = <<"ptstrict", "a">>
    /\ Posted(posted, "su: not bool ignored", "ptstrict")
    /\ Posted(posted, "add: internal ignored", "_internal_pardict")
    /\ raised = "none"

\* C13: a declared name with a concrete type is never untyped again while it
\* stays declared: no call, a further ptinit of the name included, takes its
\* declared type back to the marker of ptinit.
C13_StaysTyped ==
    [][\A key \in DOMAIN pardict["A"] :
           (/\ pardict["A"][key] # _internal_self_type
            /\ key \in DOMAIN pardict'["A"])
               => pardict'["A"][key] # _internal_self_type]_vars

\* every setting of ptstrict, pterr, pttype and pttypeerr
FlagSettings == [ModeFlags -> {True, False}]

\* the store s with the four flags of self set as F says
WithFlags(s, self, F) ==
    [s EXCEPT !.attr[self] = [k \in DOMAIN @ |-> IF k \in ModeFlags THEN F[k] ELSE @[k]]]

\* the values of the declared names of self
Values(s, self) == [k \in DOMAIN s.pardict[self] |-> s.attr[self][k]]

\* the type that is recorded for a value: None for None
RecordedType(val) == IF val = None THEN None ELSE type(val)

\* C14: from two stores that differ in ptstrict, pterr, pttype and pttypeerr
\* only, the same ptadd batch of names that are not reserved raises in
\* neither and gives the same declared types and the same values in both;
\* after a ptadd the declared type of the name is the type of its value.
C14_AddIgnoresFlags ==
    /\ \A F \in FlagSettings, batch \in AddBatches :
           LET r1 == ptadd(Cur, "A", batch)
               r2 == ptadd(WithFlags(Cur, "A", F), "A", batch)
           IN /\ r1.exc = "none" /\ r2.exc = "none"
              /\ r1.pardict = r2.pardict
              /\ Values(r1, "A") = Values(r2, "A")
              /\ \A n \in 1..Len(batch) :
                     r2.pardict["A"][batch[n].key] = RecordedType(r2.attr["A"][batch[n].key])
    /\ call.op = "ptadd"
           => /\ raised = "none"
              /\ \A n \in 1..Len(call.kw) :
                     /\ call.kw[n].key \in DOMAIN pardict[call.self]
                     /\ pardict[call.self][call.kw[n].key]
                            = RecordedType(attr[call.self][call.kw[n].key])

\* ptadd(a=1, b='1') replaced the declared a and b with all four flags on
C14_Witness ==
    /\ call.op = "ptadd" /\ call.kw = <<Kw("a", "i:1"), Kw("b", "s:1")>>
    /\ \A f \in ModeFlags : flag(Cur, "A", f)
    /\ Posted(posted, "add: replacing", "a") /\ Posted(posted, "add: replacing", "b")
    /\ pardict["A"] = [k \in {"a", "b"} |-> IF k = "a" THEN "int" ELSE "str"]

\* C15: ptsu raises nothing, whatever pairs it is given and in every state,
\* that of an object on which ptinit has never run included.
C15_SuReturns == call.op = "ptsu" => raised = "none"

\* C16: ptsu on a declared name with a concrete type commits the new value,
\* ptget returns it afterwards, and leaves the declared type as it was,
\* whether the type of the new value is the declared type or not and
\* whatever pttype and pttypeerr are.
C16_SuCommitsKeepsType ==
    [][(/\ IsPair(call', "ptsu")
        /\ Key(call') \in DOMAIN pardict[call'.self]
        /\ pardict[call'.self][Key(call')] # _internal_self_type)
       => /\ ptget(Cur', call'.self, Key(call'), NoDefault)
                 = [exc |-> "none", val |-> ptu_val(ptu, Key(call'), Val(call'))]
          /\ pardict'[call'.self][Key(call')] = pardict[call'.self][Key(call')]]_vars

\* C17: ptsu of ptstrict, pterr, ptverbose, pttype or pttypeerr raises
\* nothing; given a bool it sets the flag to it, given any other value it
\* leaves the flag as it was and posts an entry that the value is refused.
C17_FlagsTakeBoolOnly ==
    [][(IsPair(call', "ptsu") /\ Key(call') \in ModeFlagNames)
       => /\ raised' = "none"
          /\ IF type(Val(call')) = "bool"
             THEN attr'[call'.self][Key(call')] = Val(call')
             ELSE /\ attr'[call'.self][Key(call')] = attr[call'.self][Key(call')]
                  /\ posted' = <<LogEntry("su: not bool ignored", Key(call'), FALSE)>>]_vars

\* the defaults given to ptget
GetDefaults == {None, "i:2", "s:1"}

\* C18: after ptdel(a) of a declared a, such as ptadd(a=v) leaves, a is not
\* declared: ptget(a) with no default raises ParameterTrackError and
\* ptget(a, d) returns d.
C18_DeletedIsUnknown ==
    (call.op = "ptdel" /\ call.names = <<"a">>)
        => /\ "a" \notin DOMAIN pardict[call.self]
           /\ ptget(Cur, call.self, "a", NoDefault).exc = "ParameterTrackError"
           /\ \A d \in GetDefaults : ptget(Cur, call.self, "a", d) = [exc |-> "none", val |-> d]

\* ptdel('a') deleted the declared a
C18_Witness ==
    /\ call.op = "ptdel" /\ call.names = <<"a">>
    /\ posted = <<LogEntry("del: deleted", "a", FALSE)>>
    /\ "a" \notin DOMAIN attr["A"]

\* the elements of a sequence
Range(seq) == {seq[n] : n \in 1..Len(seq)}

\* the n-th name of the batch is declared when ptdel comes to it
DeletedAt(c, n) ==
    /\ c.names[n] \in DOMAIN pardict[c.self]
    /\ \A m \in 1..(n - 1) : c.names[m] # c.names[n]

\* C19: ptdel of a batch raises nothing and goes through every name: a
\* declared name of the batch is removed from _internal_pardict and from the
\* attributes, a reserved or unknown name gets an entry that is not silent
\* and the batch goes on, and every declared name outside the batch and every
\* flag is left as it was.
C19_DelBatch ==
    [][call'.op = "ptdel"
       => LET self == call'.self
              names == call'.names
          IN /\ raised' = "none"
             /\ DOMAIN pardict'[self] = DOMAIN pardict[self] \ Range(names)
             /\ DOMAIN attr'[self] = DOMAIN attr[self] \ (Range(names) \cap DOMAIN pardict[self])
             /\ \A k \in DOMAIN pardict'[self] : pardict'[self][k] = pardict[self][k]
             /\ \A k \in DOMAIN attr'[self] : attr'[self][k] = attr[self][k]
             /\ Len(posted') = Len(names)
             /\ \A n \in 1..Len(names) :
                    IF DeletedAt(call', n)
                    THEN posted'[n] = LogEntry("del: deleted", names[n], quiet(Cur, self))
                    ELSE /\ ~posted'[n].silent
                         /\ posted'[n].msg \in {"del: internal ignored", "del: unknown ignored",
                                                "del: not a name ignored"}]_vars

\* ptdel('ptstrict', 'c', 'a') refused two names, deleted a and left b
C19_Witness ==
    /\ call.op = "ptdel" /\ call.names = <<"ptstrict", "c", "a">>
    /\ posted = <<LogEntry("del: internal ignored", "ptstrict", FALSE),
                  LogEntry("del: unknown ignored", "c", FALSE),
                  LogEntry("del: deleted", "a", FALSE)>>
    /\ DOMAIN pardict["A"] = {"b"}
    /\ "a" \notin DOMAIN attr["A"] /\ "b" \in DOMAIN attr["A"]

\* C20: pt_to_dict with no filter returns the declared names, each with its
\* current value; with a filter of declared names it returns those names,
\* each with its current value.
C20_ToDict ==
    (call.op = "pt_to_dict" /\ call.opt = "False")
        => IF call.names = NoFilter
           THEN /\ raised = "none"
                /\ DOMAIN ret.rec = DOMAIN pardict[call.self]
                /\ \A k \in DOMAIN ret.rec : ret.rec[k] = attr[call.self][k]
           ELSE Range(call.names) \subseteq DOMAIN pardict[call.self]
                    => /\ raised = "none"
                       /\ DOMAIN ret.rec = Range(call.names)
                       /\ \A k \in DOMAIN ret.rec : ret.rec[k] = attr[call.self][k]

\* pt_to_dict(include_par=['a']) gave a alone while b is declared too
C20_Witness ==
    /\ call.op = "pt_to_dict" /\ call.names = <<"a">>
    /\ DOMAIN pardict["A"] = {"a", "b"}
    /\ DOMAIN ret.rec = {"a"} /\ ret.rec["a"] = "s:1"
    /\ raised = "none"

\* C21: ptget(name, default) returns the current value of a declared name,
\* which for a name ptinit has just declared is the default of ptinit; it
\* returns default for a name that is not declared, and raises
\* ParameterTrackError only for a name that is not declared when no default
\* is given.
C21_Get ==
    [][call'.op = "ptget"
       => LET self == call'.self
              key == call'.names[1]
          IN /\ IF key \in DOMAIN pardict[self]
                THEN raised' = "none" /\ ret'.val = attr[self][key]
                ELSE IF call'.dflt = NoDefault
                THEN raised' = "ParameterTrackError"
                ELSE raised' = "none" /\ ret'.val = call'.dflt
             /\ (/\ call.op = "ptinit" /\ call.opt = "" /\ raised = "none"
                 /\ key \in Range(call.names) \ Reserved)
                    => /\ pardict[self][key] = _internal_self_type
                       /\ raised' = "none" /\ ret'.val = call.dflt]_vars

\* ptget('a', 2) returned the 1 that ptinit gave the still untyped a
C21_Witness ==
    /\ call.op = "ptget" /\ call.names = <<"a">> /\ call.dflt = "i:2"
    /\ "a" \in DOMAIN pardict["A"] /\ pardict["A"]["a"] = _internal_self_type
    /\ ret.val = "i:1"
    /\ raised = "none"

\* C22: the reads ptget, pt_to_dict (with or without a filter, of values or
\* of types) and ptshow leave the declared names and types, the values and
\* the mode flags of every instance and the coercion state as they were and
\* append nothing to the log, whether they return or raise.
C22_ReadsArePure ==
    [][call'.op \in {"ptget", "pt_to_dict", "ptshow"}
       => /\ attr' = attr
          /\ pardict' = pardict
          /\ ptu' = ptu
          /\ posted' = <<>>]_vars

\* a read that raised: pt_to_dict of the types, filtered by a name that is
\* not declared
C22_Witness ==
    /\ call.op = "pt_to_dict" /\ call.names = <<"b", "a">> /\ call.opt = "True"
    /\ raised = "AttributeError"
    /\ "a" \in DOMAIN pardict["A"] /\ "b" \notin DOMAIN pardict["A"]

\* the state after the first n pairs of kwargs were given to ptset one call
\* at a time
RECURSIVE SetAlone(_, _, _, _)
SetAlone(s, self, kwargs, n) ==
    IF n = 0 THEN s
    ELSE ptset([SetAlone(s, self, kwargs, n - 1) EXCEPT !.log = <<>>], self, <<kwargs[n]>>)

\* what an instance holds under a name: its value and its declared type
Held(a, pd, self, key) ==
    <<IF key \in DOMAIN a[self] THEN a[self][key] ELSE "absent",
      IF key \in DOMAIN pd[self] THEN pd[self][key] ELSE "absent">>

\* C23: a ptset of several pairs that raises at pair k stops there: what the
\* instance holds under the names of the pairs before k is what setting them
\* alone, one call each, leaves; what it holds under the names of the pairs
\* after k is what it held before the call, and nothing is logged for them.
C23_BatchStops ==
    [][(call'.op = "ptset" /\ raised' # "none")
       => LET self == call'.self
              kw == call'.kw
          IN \E k \in 1..Len(kw) :
                LET before == SetAlone(Cur, self, kw, k - 1)
                IN /\ before.exc = "none"
                   /\ SetAlone(Cur, self, kw, k).exc = raised'
                   /\ \A m \in 1..(k - 1) :
                          Held(attr', pardict', self, kw[m].key)
                              = Held(before.attr, before.pardict, self, kw[m].key)
                   /\ \A j \in (k + 1)..Len(kw) :
                          /\ Held(attr', pardict', self, kw[j].key)
                                 = Held(attr, pardict, self, kw[j].key)
                          /\ \A n \in 1..Len(posted') : posted'[n].key # kw[j].key
                   /\ ptu' = ptu]_vars

\* ptset(a='1', b='1', c='1') raised at the undeclared b: a has gone from
\* int to str in this call, c is the int it was
C23_Witness ==
    /\ call.op = "ptset" /\ Len(call.kw) = 3 /\ raised = "ParameterTrackError"
    /\ call.kw[1].val = "s:1" /\ call.kw[3].val = "s:1"
    /\ {"a", "c"} \subseteq DOMAIN pardict["A"] /\ "b" \notin DOMAIN pardict["A"]
    /\ attr["A"]["a"] = "s:1" /\ pardict["A"]["a"] = "str"
    /\ \E n \in 1..Len(posted) : posted[n] = LogEntry("set: reset", "a", TRUE)
    /\ attr["A"]["c"] = "i:1" /\ pardict["A"]["c"] = "int"

\* the value an instance stores for (key, val) under coercion state u
Coerced(u) == [key \in {"a"}, val \in {"s:1", "i:2"} |-> ptu_val(u, key, val)]

\* C24: a construction, ptsu (ptsetunits included), ptinit, ptset, ptadd or
\* ptdel on one instance leaves the declared names and types, the values
\* and the flags of every other instance as they were, and leaves the
\* coercion the other instance's values undergo as it was.
C24_Isolated ==
    [][call'.op \in {"__init__", "ptsu", "ptinit", "ptset", "ptadd", "ptdel"}
       => \A other \in Insts \ {call'.self} :
              Constructed(other)
                  => /\ attr'[other] = attr[other]
                     /\ pardict'[other] = pardict[other]
                     /\ Coerced(ptu') = Coerced(ptu)]_vars

\* C25: ptset on a declared name with a concrete type, of a value of another
\* type, with pttype off, does not raise whatever pttypeerr is, commits the
\* value and makes the type of the value now held the declared type.
C25_TypeFollows ==
    [][(Mismatch(call') /\ ~flag(Cur, call'.self, "pttype"))
       => LET self == call'.self
              key == Key(call')
          IN /\ raised' = "none"
             /\ attr'[self][key] = ptu_val(ptu, key, Val(call'))
             /\ (~ptu.use_units => attr'[self][key] = Val(call'))
             /\ pardict'[self][key] = RecordedType(attr'[self][key])
             /\ ~Posted(posted', "set: retain", key)]_vars

\* ptset(a='1') with pttypeerr on and pttype off has made the int a a str
C25_Witness ==
    /\ IsPair(call, "ptset") /\ Key(call) = "a" /\ Val(call) = "s:1"
    /\ ~flag(Cur, "A", "pttype") /\ flag(Cur, "A", "pttypeerr")
    /\ ~ptu.use_units
    /\ posted = <<LogEntry("set: existing", "a", FALSE), LogEntry("set: reset", "a", TRUE)>>
    /\ "a" \in DOMAIN pardict["A"] /\ pardict["A"]["a"] = "str"
    /\ attr["A"]["a"] = "s:1"

\* C26: in ptset on a declared name with a concrete type the type of the
\* value the unit hook returns is what is compared with the declared type:
\* when the hook makes of the value given a value of the declared type, the
\* set is a match (nothing raised, no retain entry, declared type as it was)
\* even if the type of the value given differs.
C26_CoercedTypeDecides ==
    [][(/\ IsPair(call', "ptset")
        /\ Key(call') \in DOMAIN pardict[call'.self]
        /\ pardict[call'.self][Key(call')] # _internal_self_type
        /\ ptu_type(ptu, Key(call'), Val(call')) = pardict[call'.self][Key(call')])
       => /\ raised' = "none"
          /\ ~Posted(posted', "set: retain", Key(call'))
          /\ pardict'[call'.self][Key(call')] = pardict[call'.self][Key(call')]]_vars

\* ptset of one pair on a name that is not declared and not reserved, with
\* ptstrict off
SetsNew(c) ==
    /\ IsPair(c, "ptset")
    /\ Key(c) \notin Reserved
    /\ Key(c) \notin DOMAIN pardict[c.self]
    /\ ~flag(Cur, c.self, "ptstrict")

\* C27 as stated: ptset on a name that is not declared and not reserved, with
\* ptstrict off, declares it: the name holds the value given, its declared
\* type is the type of that value, nothing is raised whatever pterr, pttype
\* and pttypeerr are, and a 'new parameter' entry is posted.
C27_Original ==
    [][SetsNew(call')
       => LET self == call'.self
              key == Key(call')
          IN /\ raised' = "none"
             /\ key \in DOMAIN pardict'[self]
             /\ attr'[self][key] = Val(call')
             /\ pardict'[self][key] = RecordedType(Val(call'))
             /\ posted' = <<LogEntry("set: new", key, quiet(Cur, self))>>]_vars

\* C27 amended: the name holds what the unit hook makes of the value given,
\* which is the value itself when units are off, and its declared type is
\* the type of the value held; nothing is raised whatever pterr, pttype and
\* pttypeerr are, and a 'new parameter' entry is posted.
C27_SetDeclares ==
    [][SetsNew(call')
       => LET self == call'.self
              key == Key(call')
          IN /\ raised' = "none"
             /\ key \in DOMAIN pardict'[self]
             /\ attr'[self][key] = ptu_val(ptu, key, Val(call'))
             /\ (~ptu.use_units => attr'[self][key] = Val(call'))
             /\ pardict'[self][key] = RecordedType(attr'[self][key])
             /\ posted' = <<LogEntry("set: new", key, quiet(Cur, self))>>]_vars

\* ptset(a='1') declared a with pterr, pttype and pttypeerr all on; under
\* the unit int for a it holds the int 1
C27_Witness ==
    /\ IsPair(call, "ptset") /\ Key(call) = "a" /\ Val(call) = "s:1"
    /\ posted = <<LogEntry("set: new", "a", FALSE)>>
    /\ ~flag(Cur, "A", "ptstrict")
    /\ flag(Cur, "A", "pterr") /\ flag(Cur, "A", "pttype") /\ flag(Cur, "A", "pttypeerr")
    /\ ptu.use_units
    /\ "a" \in DOMAIN pardict["A"] /\ pardict["A"]["a"] = "int" /\ attr["A"]["a"] = "i:1"

\* a ptinit of a list of names that are not reserved, use_types False
InitsNames(c) ==
    /\ c.op = "ptinit" /\ c.opt = ""
    /\ Range(c.names) \cap Reserved = {}

\* C28 as stated: after ptinit(names, default) of names that are not
\* reserved every name of the list is declared, holds default and is
\* untyped, and every other declared name has the value and the declared
\* type it had.
C28_Original ==
    [][InitsNames(call')
       => LET self == call'.self
              names == Range(call'.names)
          IN /\ raised' = "none"
             /\ DOMAIN pardict'[self] = DOMAIN pardict[self] \cup names
             /\ \A key \in names :
                    /\ attr'[self][key] = call'.dflt
                    /\ pardict'[self][key] = _internal_self_type
             /\ \A key \in DOMAIN pardict[self] \ names :
                    /\ attr'[self][key] = attr[self][key]
                    /\ pardict'[self][key] = pardict[self][key]]_vars

\* C28 amended: every name of the list holds what the unit hook makes of
\* default, which is default itself when units are off or the name has no
\* unit; the rest as stated.
C28_InitDeclares ==
    [][InitsNames(call')
       => LET self == call'.self
              names == Range(call'.names)
          IN /\ raised' = "none"
             /\ DOMAIN pardict'[self] = DOMAIN pardict[self] \cup names
             /\ \A key \in names :
                    /\ attr'[self][key] = ptu_val(ptu, key, call'.dflt)
                    /\ (~ptu.use_units \/ key \notin DOMAIN ptu.unit_handler)
                           => attr'[self][key] = call'.dflt
                    /\ pardict'[self][key] = _internal_self_type
             /\ \A key \in DOMAIN pardict[self] \ names :
                    /\ attr'[self][key] = attr[self][key]
                    /\ pardict'[self][key] = pardict[self][key]]_vars

\* ptinit(['b', 'a'], '1') under the unit int for a: the a that was declared
\* holds the int 1, b the str '1', both untyped
C28_Witness ==
    /\ call.op = "ptinit" /\ call.names = <<"b", "a">> /\ call.dflt = "s:1"
    /\ raised = "none" /\ ptu.use_units
    /\ Posted(posted, "su: initializing", "a")
    /\ {"a", "b"} \subseteq DOMAIN pardict["A"]
    /\ attr["A"]["a"] = "i:1" /\ attr["A"]["b"] = "s:1"
    /\ pardict["A"]["a"] = _internal_self_type /\ pardict["A"]["b"] = _internal_self_type

\* C29: a name that ptinit left untyped is typed by the first ptset, ptadd or
\* ptsu of it that returns: after a ptsu(name=v) that is not part of a
\* ptinit, as after a ptset or a ptadd, the declared type of the name is the
\* type of the value now held and no longer the untyped marker.
C29_FirstMutationTypes ==
    [][(/\ call'.op \in {"ptset", "ptadd", "ptsu"} /\ Len(call'.kw) = 1
        /\ Key(call') \in DOMAIN pardict[call'.self]
        /\ pardict[call'.self][Key(call')] = _internal_self_type
        /\ raised' = "none")
       => /\ pardict'[call'.self][Key(call')] # _internal_self_type
          /\ pardict'[call'.self][Key(call')] = RecordedType(attr'[call'.self][Key(call')])]_vars

\* the names of the keyword arguments of a call
KwNames(c) == {c.kw[n].key : n \in 1..Len(c.kw)}

RECURSIVE KeysOf(_)
KeysOf(kwargs) == IF kwargs = <<>> THEN <<>> ELSE <<Head(kwargs).key>> \o KeysOf(Tail(kwargs))

SuOrder(kwargs) ==
    SelectSeq(<<"ptverbose", "ptnote", "ptsetunits">>, LAMBDA key : Has(kwargs, key))
        \o KeysOf(Pop(Pop(Pop(kwargs, "ptverbose"), "ptnote"), "ptsetunits"))

\* the entries ptsu posts with silent=False whatever ptverbose is
SuIgnored == {"su: method ignored", "su: internal ignored", "su: not bool ignored"}

\* the entries of a ptsu are one per pair, in the order ptsu takes the pairs,
\* up to the pair that raised
SuInOrder(c, log, exc) ==
    /\ Len(log) <= Len(SuOrder(c.kw))
    /\ exc = "none" => Len(log) = Len(SuOrder(c.kw))
    /\ \A n \in 1..Len(log) : log[n].key = SuOrder(c.kw)[n]

C32_OneEntryPerPair ==
    [][(call'.op \in {"ptset", "ptadd", "ptsu"} /\ raised' = "none")
       => /\ Len(posted') = Len(call'.kw)
          /\ \A n \in 1..Len(posted') : posted'[n].key = call'.kw[n].key]_vars

\* the entries that report a pair or a name refused
Ignored ==
    {"set: internal ignored", "set: unknown ignored", "add: internal ignored",
     "su: method ignored", "su: internal ignored", "su: not bool ignored",
     "del: internal ignored", "del: unknown ignored", "del: not a name ignored",
     "init: not a list ignored"}

\* C33: the entry of a type changed by ptset, on a mismatch with pttype off,
\* follows ptverbose as the entries of accepted pairs do: it is silent
\* exactly when ptverbose is off; the 'ignored' entries are never silent.
C33_ResetFollowsVerbose ==
    [][/\ (Mismatch(call') /\ ~flag(Cur, call'.self, "pttype"))
           => \E n \in 1..Len(posted') :
                  posted'[n] = LogEntry("set: reset", Key(call'), quiet(Cur, call'.self))
       /\ \A n \in 1..Len(posted') : posted'[n].msg \in Ignored => ~posted'[n].silent]_vars

\* __log__.log after the call just made, when it was `before` at its start
LogAfter(before) == IF cleared THEN posted ELSE before \o posted

IsPrefix(s, t) == Len(s) <= Len(t) /\ SubSeq(t, 1, Len(s)) = s

\* logs a call may start from: empty, and holding entries
LogsBefore == {<<>>, <<LogEntry("version", "", TRUE), LogEntry("add: adding", "a", FALSE)>>}

\* C34: the log is append-only: over any operations on any number of
\* instances the entries held before an operation are a prefix of the
\* entries held after it; no operation removes or rewrites an entry.
C34_AppendOnly == \A before \in LogsBefore : IsPrefix(before, LogAfter(before))

\* C35: ptnote holds the note it was given: after the construction with
\* ptnote=s (here the default note), and after a ptsu(ptnote=s) of a str s,
\* the attribute ptnote is s.
C35_NoteKept ==
    /\ (call.op = "__init__" /\ raised = "none")
           => attr[call.self]["ptnote"] = Defaults.ptnote
    /\ (/\ call.op = "ptsu" /\ raised = "none"
        /\ Has(call.kw, "ptnote") /\ type(Get(call.kw, "ptnote")) = "str")
           => attr[call.self]["ptnote"] = Get(call.kw, "ptnote")

\* C36: setting a name to the value it holds is no type mismatch: when
\* ptadd(name=v) has stored v, None included, a ptset(name=v) with pttype on
\* raises nothing, posts no retain entry and leaves the declared type as it
\* was.
C36_SameValueMatches ==
    [][(/\ IsPair(call, "ptadd") /\ raised = "none"
        /\ Key(call) \in DOMAIN pardict[call.self]
        /\ IsPair(call', "ptset") /\ call'.self = call.self /\ call'.kw = call.kw
        /\ flag(Cur, call.self, "pttype"))
       => /\ raised' = "none"
          /\ ~Posted(posted', "set: retain", Key(call'))
          /\ pardict'[call.self][Key(call)] = pardict[call.self][Key(call)]]_vars

\* C37: in a store changed only by ptadd, ptdel and ptset with pttype off,
\* the declared type of every declared name is the type recorded for the
\* value the name holds, None for the value None.
C37_TypeOfValue ==
    \A self \in Insts : \A key \in DOMAIN pardict[self] :
        pardict[self][key] = RecordedType(attr[self][key])

\* C38: whatever names the filter of pt_to_dict holds, for values as for
\* types, the keys of the mapping returned are declared names: a flag or a
\* name that is not declared does not appear in it.
C38_ExportsDeclaredOnly ==
    (call.op = "pt_to_dict" /\ call.opt \in {"False", "True"} /\ raised = "none")
        => DOMAIN ret.rec \subseteq DOMAIN pardict[call.self]

\* C39: the marker of the initialization phase is on only while ptinit runs:
\* once a ptinit has returned (here ptinit(['a']), which alone declares a), a
\* ptsu of a name that is neither reserved nor declared declares it with the
\* type of its value and not untyped, and a ptsu of a declared name with a
\* concrete type does not make it untyped.
C39_MarkerOnlyInInit ==
    [][(/\ IsPair(call', "ptsu") /\ raised' = "none"
        /\ Key(call') \notin Reserved
        /\ "a" \in DOMAIN pardict[call'.self])
       => LET self == call'.self
              key == Key(call')
          IN /\ key \notin DOMAIN pardict[self]
                    => /\ pardict'[self][key] # _internal_self_type
                       /\ pardict'[self][key] = RecordedType(attr'[self][key])
             /\ (key \in DOMAIN pardict[self] /\ pardict[self][key] # _internal_self_type)
                    => pardict'[self][key] # _internal_self_type]_vars

====
